---- MODULE Spec2Model ----
(***************************************************************************)
(* Model of numbersgame.py: the reachability engine solvable_targets, the  *)
(* solver engine solve_puzzle (with its CalcNode class) and the hand       *)
(* enumerator get_hands.                                                   *)
(*                                                                         *)
(* Python tuples and lists are sequences; the 0-based numpy array          *)
(* targets_solvable is a function on 0..999.  A Python string built by     *)
(* '%' formatting is a sequence of tokens (one token per number or         *)
(* symbol), so that an expression can be read back and evaluated.          *)
(***************************************************************************)
EXTENDS Integers, Sequences, FiniteSets, TLC

(* ---------------- program constants ---------------- *)

SMALL_CARDS == <<1, 2, 3, 4, 5, 6, 7, 8, 9, 10, 1, 2, 3, 4, 5, 6, 7, 8, 9, 10>>

LARGE_CARDS == <<25, 50, 75, 100>>

MIN_TARGET == 100

MAX_TARGET == 999

\* size of the numpy array allocated by solvable_targets
TARGETS_LEN == 1000

(* ---------------- bounds of the model ---------------- *)

\* largest number of cards in a hand given to the engines
MaxCards == 3

\* solve_puzzle is called with the targets MIN_TARGET .. MIN_TARGET + NumTargets - 1
NumTargets == 4

\* the card values a hand given to the engines may hold
CardValues == {1, 2, 3, 7, 10, 100}

\* the hands given to the engines: ascending tuples, as get_hands builds them
\* (line 43) and as the doctests of solve_puzzle write them
Hands ==
    UNION {{h \in [1..n -> CardValues] : \A k \in 1..(n - 1) : h[k] <= h[k + 1]} :
              n \in 2..MaxCards}

Targets == MIN_TARGET..(MIN_TARGET + NumTargets - 1)

(* ---------------- helpers shared by the engines ---------------- *)

Range(s) == {s[k] : k \in DOMAIN s}

\* SortedDescInt with the sort left out
SortedDescInt_Unsorted(seq) == seq

\* PlaceDescInt with reverse=True forgotten: the place in sorted(seq)
PlaceDescInt_Ascending(seq, p) ==
    1 + Cardinality({q \in DOMAIN seq : seq[q] < seq[p] \/ (seq[q] = seq[p] /\ q < p)})

\* the place of seq[p] in sorted(seq, reverse=True): after the larger
\* elements and, the sort being stable, after the equal ones that precede it
PlaceDescInt(seq, p) ==
    1 + Cardinality({q \in DOMAIN seq : seq[q] > seq[p] \/ (seq[q] = seq[p] /\ q < p)})

\* sorted(seq, reverse=True) on integers
SortedDescInt(seq) ==
    [k \in DOMAIN seq |-> seq[CHOOSE p \in DOMAIN seq : PlaceDescInt(seq, p) = k]]

\* the pairs (i, j) of the loops "for i, m in enumerate(number_set)" and
\* "for j, n in enumerate(next_numbers)", as positions i < j of number_set
PairsOf(number_set) ==
    {ij \in (DOMAIN number_set) \X (DOMAIN number_set) : ij[1] < ij[2]}

\* OtherNumbers with next_numbers[j:] for next_numbers[(j + 1):]: n stays
OtherNumbers_KeepsN(number_set, i, j) ==
    SubSeq(number_set, 1, i - 1) \o SubSeq(number_set, i + 1, Len(number_set))

\* other_numbers = number_set[:i] + next_numbers[:j] + next_numbers[(j + 1):]
OtherNumbers(number_set, i, j) ==
    SubSeq(number_set, 1, i - 1) \o SubSeq(number_set, i + 1, j - 1)
        \o SubSeq(number_set, j + 1, Len(number_set))

\* NextCardinality with the decrement forgotten
NextCardinality_Same(cardinality) == cardinality

\* cardinality -= 1, the last statement of the while loop of both engines
NextCardinality(cardinality) == cardinality - 1

(* ---------------- solvable_targets ---------------- *)

\* ReachCandidates with "sub_res >= 0" for "sub_res > 0" at line 155
ReachCandidates_ZeroDifference(m, n) ==
    (IF n # 1
        THEN <<m * n>> \o (IF n * (m \div n) = m THEN <<m \div n>> ELSE <<>>)
        ELSE <<>>)
    \o <<m + n>>
    \o (IF m - n >= 0 THEN <<m - n>> ELSE <<>>)

\* ReachCandidates with the exactness test of line 151 left out
ReachCandidates_AnyQuotient(m, n) ==
    (IF n # 1 THEN <<m * n, m \div n>> ELSE <<>>)
    \o <<m + n>>
    \o (IF m - n > 0 THEN <<m - n>> ELSE <<>>)

\* the list candidates built for one pair (m, n)
ReachCandidates(m, n) ==
    (IF n # 1
        THEN <<m * n>> \o (IF n * (m \div n) = m THEN <<m \div n>> ELSE <<>>)
        ELSE <<>>)
    \o <<m + n>>
    \o (IF m - n > 0 THEN <<m - n>> ELSE <<>>)

\* the candidates of every pair of one state
ReachStateCandidates(number_set) ==
    UNION {Range(ReachCandidates(number_set[ij[1]], number_set[ij[2]])) :
              ij \in PairsOf(number_set)}

\* ReachKeeps with "cardinality >= 2" for "cardinality > 2" at line 160
ReachKeeps_AtTwo(candidate, number_set, cardinality) ==
    cardinality >= 2 /\ candidate \notin Range(number_set)

\* ReachKeeps without the test "candidate not in number_set" of line 160
ReachKeeps_Always(candidate, number_set, cardinality) == cardinality > 2

\* the condition under which a candidate gives a successor state
ReachKeeps(candidate, number_set, cardinality) ==
    cardinality > 2 /\ candidate \notin Range(number_set)

\* the states one state adds to new_number_lists
ReachSuccessors(number_set, cardinality) ==
    UNION {
        {SortedDescInt(new_numbers) :
            new_numbers \in
                {<<candidate>> \o OtherNumbers(number_set, ij[1], ij[2]) :
                    candidate \in {c \in Range(ReachCandidates(number_set[ij[1]], number_set[ij[2]])) :
                                      ReachKeeps(c, number_set, cardinality)}}} :
        ij \in PairsOf(number_set)}

\* ReachMarked without the test "candidate <= MAX_TARGET" of line 158
ReachMarked_Unguarded(number_lists, marks) ==
    [x \in UNION {ReachStateCandidates(ns) : ns \in number_lists} |-> 1] @@ marks

\* targets_solvable after the body of the while loop ran over number_lists
ReachMarked(number_lists, marks) ==
    [x \in {candidate \in UNION {ReachStateCandidates(ns) : ns \in number_lists} :
                candidate <= MAX_TARGET} |-> 1] @@ marks

\* new_number_lists after the body of the while loop ran over number_lists
ReachNewLists(number_lists, cardinality) ==
    UNION {ReachSuccessors(ns, cardinality) : ns \in number_lists}

\* targets_solvable[100:]
SliceFromMin(marks) ==
    [i \in 0..(TARGETS_LEN - 1 - MIN_TARGET) |-> marks[i + MIN_TARGET]]

RECURSIVE ReachLoop(_, _, _)
\* the while loop of lines 140-163 run to its end, and the return of line 164
ReachLoop(number_lists, cardinality, marks) ==
    IF cardinality > 1
    THEN ReachLoop(ReachNewLists(number_lists, cardinality), NextCardinality(cardinality),
                   ReachMarked(number_lists, marks))
    ELSE SliceFromMin(marks)

\* solvable_targets(hand) as a function of its argument
SolvableTargets(hand) ==
    ReachLoop({SortedDescInt(hand)}, Len(hand), [x \in 0..(TARGETS_LEN - 1) |-> 0])

(* ---------------- solve_puzzle: CalcNode ---------------- *)

\* one token of a formatted string: a number or a symbol
NumTok(v) == [sym |-> "num", num |-> v]

SymTok(s) == [sym |-> s, num |-> 0]

\* CalcNode.__init__ with expr=None: expr = str(val).  The field id stands for
\* the identity of the Python object: the set of positions (in the caller's
\* list) of the card objects the node was built from.
CalcNode(val, pos) == [val |-> val, expr |-> <<NumTok(val)>>, id |-> {pos}]

\* '(%s <op> %s)' % (self, other), __repr__ giving expr
FormatOp(op, self, other) ==
    <<SymTok("(")>> \o self.expr \o <<SymTok(op)>> \o other.expr \o <<SymTok(")")>>

\* the outcome of an operator call: a returned node or a raised exception
Returned(node) == [raised |-> FALSE, exc |-> "", node |-> node]

ValueError == [raised |-> TRUE, exc |-> "ValueError", node |-> <<>>]

\* what the operator // raises on a zero divisor
ZeroDivisionError == [raised |-> TRUE, exc |-> "ZeroDivisionError", node |-> <<>>]

\* CalcNode.__add__
NodeAdd(self, other) ==
    Returned([val |-> self.val + other.val, expr |-> FormatOp("+", self, other),
              id |-> self.id \cup other.id])

\* CalcNode.__mul__
NodeMul(self, other) ==
    Returned([val |-> self.val * other.val, expr |-> FormatOp("*", self, other),
              id |-> self.id \cup other.id])

\* NodeSub without the test of line 85
NodeSub_Unchecked(self, other) ==
    Returned([val |-> self.val - other.val, expr |-> FormatOp("-", self, other),
              id |-> self.id \cup other.id])

\* CalcNode.__sub__
NodeSub(self, other) ==
    LET sub_res == self.val - other.val
    IN  IF sub_res > 0
        THEN Returned([val |-> sub_res, expr |-> FormatOp("-", self, other),
                       id |-> self.id \cup other.id])
        ELSE ValueError

\* CalcNode.__truediv__
NodeDiv(self, other) ==
    IF other.val = 0 THEN ZeroDivisionError
    ELSE LET div_res == self.val \div other.val
         IN  IF div_res * other.val = self.val
             THEN Returned([val |-> div_res, expr |-> FormatOp("/", self, other),
                            id |-> self.id \cup other.id])
             ELSE ValueError

\* NodeNeInt as it would be if CalcNode compared by value
NodeNeInt_ByValue(node, k) == node.val # k

\* "n != 1" on a CalcNode n: the class defines neither __eq__ nor __ne__, so
\* the comparison with an int falls back to object identity and is True for
\* every node, whatever its val
NodeNeInt(node, k) == TRUE

\* "x in number_set" on CalcNodes: without __eq__ this is identity of objects
NodeIn(x, number_set) == \E p \in DOMAIN number_set : number_set[p].id = x.id

\* CalcNode.__lt__
NodeLt(self, other) == self.val < other.val

\* the place of seq[p] in sorted(seq, reverse=True), which compares with
\* __lt__ only: after the elements seq[p] is smaller than and, the sort being
\* stable, after the elements that precede it and are not smaller than it
PlaceDescNode(seq, p) ==
    1 + Cardinality({q \in DOMAIN seq :
                        NodeLt(seq[p], seq[q]) \/ (~NodeLt(seq[q], seq[p]) /\ q < p)})

\* sorted(seq, reverse=True) on CalcNodes
SortedDescNode(seq) ==
    [k \in DOMAIN seq |-> seq[CHOOSE p \in DOMAIN seq : PlaceDescNode(seq, p) = k]]

(* ---------------- solve_puzzle: the search ---------------- *)

\* TryAppend with the try around the whole list: an exception loses the
\* candidates appended before it
TryAppend_Drops(candidates, outcome) ==
    IF outcome.raised THEN <<>> ELSE Append(candidates, outcome.node)

\* candidates.append(x) inside try/except: a raised exception is absorbed
TryAppend(candidates, outcome) ==
    IF outcome.raised THEN candidates ELSE Append(candidates, outcome.node)

\* SolveCandidates with "n.val != 1" for "n != 1" at line 109
SolveCandidates_SkipsOne(m, n) ==
    LET c1 == IF n.val # 1
              THEN TryAppend(Append(<<>>, NodeMul(m, n).node), NodeDiv(m, n))
              ELSE <<>>
        c2 == Append(c1, NodeAdd(m, n).node)
    IN  TryAppend(c2, NodeSub(m, n))

\* the list candidates built for one pair (m, n), lines 108-119
SolveCandidates(m, n) ==
    LET c1 == IF NodeNeInt(n, 1)
              THEN TryAppend(Append(<<>>, NodeMul(m, n).node), NodeDiv(m, n))
              ELSE <<>>
        c2 == Append(c1, NodeAdd(m, n).node)
    IN  TryAppend(c2, NodeSub(m, n))

RECURSIVE SolveCandidatesFrom(_, _, _)
\* the candidates of one state in the order the loops visit them, from the
\* pair of positions (i, j) on
SolveCandidatesFrom(number_set, i, j) ==
    IF i >= Len(number_set) THEN <<>>
    ELSE IF j > Len(number_set) THEN SolveCandidatesFrom(number_set, i + 1, i + 2)
    ELSE SolveCandidates(number_set[i], number_set[j])
             \o SolveCandidatesFrom(number_set, i, j + 1)

\* does the visit of number_set reach "return" at line 122
HasMatch(number_set, tgt) ==
    \E seq \in {SolveCandidatesFrom(number_set, 1, 2)} :
        \E k \in DOMAIN seq : seq[k].val = tgt

\* the first candidate of the visit of number_set whose val is the target
FirstMatch(number_set, tgt) ==
    CHOOSE candidate \in UNION {
               {seq[k] : k \in {k \in DOMAIN seq :
                                   /\ seq[k].val = tgt
                                   /\ \A l \in 1..(k - 1) : seq[l].val # tgt}} :
               seq \in {SolveCandidatesFrom(number_set, 1, 2)}} : TRUE

\* the condition of line 123
SolveKeeps(candidate, number_set, cardinality) ==
    cardinality > 2 /\ ~NodeIn(candidate, number_set)

\* the states one state adds to new_number_lists, line 124
SolveSuccessors(number_set, cardinality) ==
    UNION {
        {SortedDescNode(new_numbers) :
            new_numbers \in
                {<<candidate>> \o OtherNumbers(number_set, ij[1], ij[2]) :
                    candidate \in {c \in Range(SolveCandidates(number_set[ij[1]], number_set[ij[2]])) :
                                      SolveKeeps(c, number_set, cardinality)}}} :
        ij \in PairsOf(number_set)}

\* new_number_lists after the for loop over number_lists ran to its end
SolveNewLists(number_lists, cardinality) ==
    UNION {SolveSuccessors(ns, cardinality) : ns \in number_lists}

\* '%s == %s' % (candidate.expr, target)
FormatSuccess(expr, tgt) == expr \o <<SymTok("=="), NumTok(tgt)>>

RECURSIVE FormatTuple(_)
\* the items of repr(tuple of CalcNodes), separated by ", "
FormatTuple(nodes) ==
    IF nodes = <<>> THEN <<>>
    ELSE IF Len(nodes) = 1 THEN nodes[1].expr
    ELSE nodes[1].expr \o <<SymTok(",")>> \o FormatTuple(Tail(nodes))

\* 'no combination of %s yields %s' % (cards, target)
FormatFailure(nodes, tgt) ==
    <<SymTok("no combination of"), SymTok("(")>> \o FormatTuple(nodes)
        \o <<SymTok(")"), SymTok("yields"), NumTok(tgt)>>

(* ---------------- get_hands ---------------- *)

\* the place of seq[p] in sorted(seq): after the smaller elements and, the
\* sort being stable, after the equal ones that precede it
PlaceAscInt(seq, p) ==
    1 + Cardinality({q \in DOMAIN seq : seq[q] < seq[p] \/ (seq[q] = seq[p] /\ q < p)})

\* sorted(seq) on integers
SortedAscInt(seq) ==
    [k \in DOMAIN seq |-> seq[CHOOSE p \in DOMAIN seq : PlaceAscInt(seq, p) = k]]

\* the tuple itertools.combinations yields for the positions idx of pool
PickCards(pool, idx) == [k \in DOMAIN idx |-> pool[idx[k]]]

\* CountHand with "hand = p_large + p_small" for line 43: the sort left out
CountHand_Unsorted(p_large, p_small) ==
    LET hand == p_large \o p_small
    IN  [h \in {hand} |-> 0 + 1]

\* lines 43-44 for one pair (p_large, p_small), starting from no entry:
\* hand = tuple(sorted(p_large + p_small)); hands[hand] = hands.get(hand, 0) + 1
CountHand(p_large, p_small) ==
    LET hand == SortedAscInt(p_large \o p_small)
    IN  [h \in {hand} |-> 0 + 1]

\* AddCounts with "hands[hand] = 1" for line 44
AddCounts_Overwrite(a, b) ==
    [h \in DOMAIN a \cup DOMAIN b |-> IF h \in DOMAIN b THEN b[h] ELSE a[h]]

\* the dictionary that holds, for every hand, the increments of line 44 that
\* went into a and those that went into b
AddCounts(a, b) ==
    [h \in DOMAIN a \cup DOMAIN b |->
        (IF h \in DOMAIN a THEN a[h] ELSE 0) + (IF h \in DOMAIN b THEN b[h] ELSE 0)]

RECURSIVE VisitSmall(_, _, _, _)
\* the for loop of line 42: the increments of line 44 over every combination
\* of n_small positions of SMALL_CARDS that extends the positions idx with
\* positions >= from (itertools.combinations yields every such tuple once)
VisitSmall(p_large, n_small, idx, from) ==
    IF Len(idx) = n_small THEN CountHand(p_large, PickCards(SMALL_CARDS, idx))
    ELSE IF from > Len(SMALL_CARDS) THEN <<>>
    ELSE AddCounts(VisitSmall(p_large, n_small, Append(idx, from), from + 1),
                   VisitSmall(p_large, n_small, idx, from + 1))

RECURSIVE CombinationsFrom(_, _, _, _)
\* the tuples of positions of itertools.combinations(range(n), r) that extend
\* idx with positions >= from, in the order they are yielded
CombinationsFrom(n, r, idx, from) ==
    IF Len(idx) = r THEN <<idx>>
    ELSE IF from > n THEN <<>>
    ELSE CombinationsFrom(n, r, Append(idx, from), from + 1)
             \o CombinationsFrom(n, r, idx, from + 1)

\* list(itertools.combinations(LARGE_CARDS, n_large))
LargeCombinations(nl) ==
    LET idxs == CombinationsFrom(Len(LARGE_CARDS), nl, <<>>, 1)
    IN  [k \in DOMAIN idxs |-> PickCards(LARGE_CARDS, idxs[k])]

VARIABLES
    cards,              \* the hand passed to both engines, in the caller's order
    r_pc,               \* solvable_targets: "call", "loop", "done"
    r_cards,            \* solvable_targets: cards after line 136
    r_number_lists,     \* solvable_targets: number_lists
    r_cardinality,      \* solvable_targets: cardinality
    targets_solvable,   \* solvable_targets: the numpy array
    r_result,           \* solvable_targets: the returned slice
    target,             \* solve_puzzle: target
    s_pc,               \* solve_puzzle: "call", "loop", "done"
    s_cards,            \* solve_puzzle: cards after line 98
    s_number_lists,     \* solve_puzzle: number_lists
    s_cardinality,      \* solve_puzzle: cardinality
    s_result,           \* solve_puzzle: the returned string
    n_large,            \* get_hands: n_large
    g_pc,               \* get_hands: "idle", "call", "loop", "done"
    g_large,            \* get_hands: number of p_large already visited by line 41
    hands,              \* get_hands: hands
    g_result            \* get_hands: the returned dictionary

reach_vars == <<r_pc, r_cards, r_number_lists, r_cardinality, targets_solvable, r_result>>

solve_vars == <<target, s_pc, s_cards, s_number_lists, s_cardinality, s_result>>

hands_vars == <<n_large, g_pc, g_large, hands, g_result>>

vars == <<cards, reach_vars, solve_vars, hands_vars>>

\* get_hands not called
HandsIdle ==
    /\ n_large = 0
    /\ g_pc = "idle"
    /\ g_large = 0
    /\ hands = <<>>
    /\ g_result = <<>>

\* a caller about to cross-check the two engines on a hand
InitEngines ==
    /\ cards \in Hands
    /\ HandsIdle
    /\ r_pc = "call"
    /\ r_cards = <<>>
    /\ r_number_lists = {}
    /\ r_cardinality = 0
    /\ targets_solvable = <<>>
    /\ r_result = <<>>
    /\ target = 0
    /\ s_pc = "call"
    /\ s_cards = <<>>
    /\ s_number_lists = {}
    /\ s_cardinality = 0
    /\ s_result = <<>>

\* a caller about to call get_hands(n_large), as line 173 does for range(5)
InitHands ==
    /\ n_large \in 0..4
    /\ g_pc = "call"
    /\ g_large = 0
    /\ hands = <<>>
    /\ g_result = <<>>
    /\ cards = <<>>
    /\ r_pc = "idle"
    /\ r_cards = <<>>
    /\ r_number_lists = {}
    /\ r_cardinality = 0
    /\ targets_solvable = <<>>
    /\ r_result = <<>>
    /\ target = 0
    /\ s_pc = "idle"
    /\ s_cards = <<>>
    /\ s_number_lists = {}
    /\ s_cardinality = 0
    /\ s_result = <<>>

Init == InitEngines \/ InitHands

\* lines 136-139
ReachStart ==
    /\ r_pc = "call"
    /\ r_cards' = SortedDescInt(cards)
    /\ targets_solvable' = [x \in 0..(TARGETS_LEN - 1) |-> 0]
    /\ r_number_lists' = {SortedDescInt(cards)}
    /\ r_cardinality' = Len(cards)
    /\ r_pc' = "loop"
    /\ UNCHANGED <<cards, r_result, solve_vars, hands_vars>>

\* one iteration of the while loop, lines 140-163
ReachLevel ==
    /\ r_pc = "loop"
    /\ r_cardinality > 1
    /\ targets_solvable' = ReachMarked(r_number_lists, targets_solvable)
    /\ r_number_lists' = ReachNewLists(r_number_lists, r_cardinality)
    /\ r_cardinality' = NextCardinality(r_cardinality)
    /\ UNCHANGED <<cards, r_pc, r_cards, r_result, solve_vars, hands_vars>>

\* line 164
ReachReturn ==
    /\ r_pc = "loop"
    /\ ~(r_cardinality > 1)
    /\ r_result' = SliceFromMin(targets_solvable)
    /\ r_pc' = "done"
    /\ UNCHANGED <<cards, r_cards, r_number_lists, r_cardinality, targets_solvable, solve_vars, hands_vars>>

\* the CalcNodes of line 97, in the order of the caller's list
CardNodes(hand) == [p \in DOMAIN hand |-> CalcNode(hand[p], p)]

\* lines 97-100; the hand is the one solvable_targets was called with, once
\* that call has returned
SolveStart(tgt) ==
    /\ s_pc = "call"
    /\ r_pc = "done"
    /\ target' = tgt
    /\ s_cards' = SortedDescNode(CardNodes(cards))
    /\ s_number_lists' = {SortedDescNode(CardNodes(cards))}
    /\ s_cardinality' = Len(cards)
    /\ s_pc' = "loop"
    /\ UNCHANGED <<cards, reach_vars, s_result, hands_vars>>

\* one iteration of the while loop that reaches line 122: number_lists is a
\* set of tuples of objects hashed by identity, so any state with a matching
\* candidate may be the first one visited
SolveLevelReturn ==
    /\ s_pc = "loop"
    /\ s_cardinality > 1
    /\ \E number_set \in s_number_lists :
          /\ HasMatch(number_set, target)
          /\ s_result' = FormatSuccess(FirstMatch(number_set, target).expr, target)
    /\ s_pc' = "done"
    /\ UNCHANGED <<cards, reach_vars, target, s_cards, s_number_lists, s_cardinality, hands_vars>>

\* one iteration of the while loop without a match, lines 101-126
SolveLevel ==
    /\ s_pc = "loop"
    /\ s_cardinality > 1
    /\ \A number_set \in s_number_lists : ~HasMatch(number_set, target)
    /\ s_number_lists' = SolveNewLists(s_number_lists, s_cardinality)
    /\ s_cardinality' = NextCardinality(s_cardinality)
    /\ UNCHANGED <<cards, reach_vars, target, s_pc, s_cards, s_result, hands_vars>>

\* line 127
SolveReturn ==
    /\ s_pc = "loop"
    /\ ~(s_cardinality > 1)
    /\ s_result' = FormatFailure(s_cards, target)
    /\ s_pc' = "done"
    /\ UNCHANGED <<cards, reach_vars, target, s_cards, s_number_lists, s_cardinality, hands_vars>>

\* lines 39-40
GetHandsStart ==
    /\ g_pc = "call"
    /\ hands' = <<>>
    /\ g_large' = 0
    /\ g_pc' = "loop"
    /\ UNCHANGED <<cards, reach_vars, solve_vars, n_large, g_result>>

\* one iteration of the for loop of line 41, with the whole loop of line 42
GetHandsLarge ==
    /\ g_pc = "loop"
    /\ g_large < Len(LargeCombinations(n_large))
    /\ hands' = AddCounts(hands, VisitSmall(LargeCombinations(n_large)[g_large + 1],
                                            6 - n_large, <<>>, 1))
    /\ g_large' = g_large + 1
    /\ UNCHANGED <<cards, reach_vars, solve_vars, n_large, g_pc, g_result>>

\* line 45
GetHandsReturn ==
    /\ g_pc = "loop"
    /\ ~(g_large < Len(LargeCombinations(n_large)))
    /\ g_result' = hands
    /\ g_pc' = "done"
    /\ UNCHANGED <<cards, reach_vars, solve_vars, n_large, g_large, hands>>

Next ==
    \/ GetHandsStart
    \/ GetHandsLarge
    \/ GetHandsReturn
    \/ ReachStart
    \/ ReachLevel
    \/ ReachReturn
    \/ \E tgt \in Targets : SolveStart(tgt)
    \/ SolveLevelReturn
    \/ SolveLevel
    \/ SolveReturn

Spec == Init /\ [][Next]_vars

\* the steps of the two engines
EngineNext ==
    \/ ReachStart
    \/ ReachLevel
    \/ ReachReturn
    \/ \E tgt \in Targets : SolveStart(tgt)
    \/ SolveLevelReturn
    \/ SolveLevel
    \/ SolveReturn

\* the program is sequential: a call of an engine that can take a step takes it
FairSpec == Spec /\ WF_vars(EngineNext)

(* ---------------- the rules of the game, stated on expressions ---------------- *)

\* the values of a valid operation on a and b: sum, product, strictly
\* positive difference, exact quotient
Combine(X, Y) ==
    UNION {{a + b, a * b}
             \cup (IF a - b > 0 THEN {a - b} ELSE {})
             \cup (IF b # 0 /\ a % b = 0 THEN {a \div b} ELSE {}) :
           <<a, b>> \in X \X Y}

RECURSIVE ExprValuesOn(_, _)
\* the values of the valid expressions that use exactly the cards of hand at
\* the positions P, each once
ExprValuesOn(hand, P) ==
    IF Cardinality(P) = 1 THEN {hand[p] : p \in P}
    ELSE UNION {Combine(ExprValuesOn(hand, A), ExprValuesOn(hand, P \ A)) :
                   A \in (SUBSET P) \ {{}, P}}

\* the values of the valid expressions with at least one operation over
\* cards of hand, each card used at most once
ExprValues(hand) ==
    UNION {ExprValuesOn(hand, P) : P \in {Q \in SUBSET DOMAIN hand : Cardinality(Q) >= 2}}

\* solve_puzzle returned '<expr> == <target>'
IsSuccess(res) == Len(res) >= 3 /\ res[Len(res) - 1] = SymTok("==")

\* solve_puzzle returned 'no combination of ... yields ...'
IsFailure(res) == Len(res) >= 3 /\ res[1] = SymTok("no combination of")

\* solvable_targets has just returned
ReachReturned == r_pc = "done" /\ s_pc = "call"

\* solve_puzzle has returned
SolveReturned == s_pc = "done"

(* ---------------- C1 ---------------- *)

\* C1: for every hand and every target t, solvable_targets(hand)[t - 100] is 1
\* if and only if solve_puzzle(hand, t) returns a success expression.
C1_EnginesAgree ==
    SolveReturned => (r_result[target - MIN_TARGET] = 1 <=> IsSuccess(s_result))

(* ---------------- C2 ---------------- *)

\* C2: solvable_targets is complete: every target in [100, 999] that is the
\* value of a valid expression over cards of the hand has its bit set.
C2_ReachComplete ==
    ReachReturned =>
        \A t \in MIN_TARGET..MAX_TARGET :
            t \in ExprValues(cards) => r_result[t - MIN_TARGET] = 1

(* ---------------- C3 ---------------- *)

\* C3: solvable_targets is sound: the result has exactly 900 entries, entry i
\* standing for target 100 + i, and entry i is 1 only if 100 + i is the value
\* of a valid expression over cards of the hand.
C3_ReachSound ==
    ReachReturned =>
        /\ DOMAIN r_result = 0..899
        /\ \A i \in DOMAIN r_result :
              /\ r_result[i] \in {0, 1}
              /\ r_result[i] = 1 => (MIN_TARGET + i) \in ExprValues(cards)

\* a call returned a bitmap with set bits and clear bits, from a hand in which
\* an inexact division and a non-positive subtraction were both refused
C3_Witness ==
    /\ ReachReturned
    /\ \E i \in DOMAIN r_result : r_result[i] = 1
    /\ \E i \in DOMAIN r_result : r_result[i] = 0
    /\ \E p, q \in DOMAIN cards : p # q /\ cards[p] = cards[q]
    /\ \E p, q \in DOMAIN cards : cards[q] > 1 /\ cards[p] > cards[q] /\ cards[p] % cards[q] # 0

(* ---------------- C4 ---------------- *)

BadParse == [ok |-> FALSE, val |-> 0]

\* the nesting depth of parentheses before position k of toks
DepthBefore(toks, k) ==
    Cardinality({l \in 1..(k - 1) : toks[l].sym = "("})
        - Cardinality({l \in 1..(k - 1) : toks[l].sym = ")"})

RECURSIVE EvalExpr(_)
\* reads the expression toks and evaluates it by integer arithmetic; ok tells
\* that toks is a number or '(A op B)' with A and B read the same way, every
\* subtraction strictly positive and every division exact
EvalExpr(toks) ==
    IF Len(toks) = 0 THEN BadParse
    ELSE IF Len(toks) = 1
    THEN (IF toks[1].sym = "num" THEN [ok |-> TRUE, val |-> toks[1].num] ELSE BadParse)
    ELSE IF toks[1].sym # "(" \/ toks[Len(toks)].sym # ")" THEN BadParse
    ELSE LET inner == SubSeq(toks, 2, Len(toks) - 1)
             ops == {k \in DOMAIN inner :
                        /\ inner[k].sym \in {"+", "-", "*", "/"}
                        /\ DepthBefore(inner, k) = 0}
         IN  IF Cardinality(ops) # 1 THEN BadParse
             ELSE LET k == CHOOSE k \in ops : TRUE
                      a == EvalExpr(SubSeq(inner, 1, k - 1))
                      b == EvalExpr(SubSeq(inner, k + 1, Len(inner)))
                      op == inner[k].sym
                  IN  IF ~a.ok \/ ~b.ok THEN BadParse
                      ELSE IF op = "+" THEN [ok |-> TRUE, val |-> a.val + b.val]
                      ELSE IF op = "*" THEN [ok |-> TRUE, val |-> a.val * b.val]
                      ELSE IF op = "-"
                      THEN (IF a.val - b.val > 0
                               THEN [ok |-> TRUE, val |-> a.val - b.val] ELSE BadParse)
                      ELSE (IF b.val # 0 /\ a.val % b.val = 0
                               THEN [ok |-> TRUE, val |-> a.val \div b.val] ELSE BadParse)

\* the <expr> of a success string '<expr> == <target>'
ExprOf(res) == SubSeq(res, 1, Len(res) - 2)

\* C4: when solve_puzzle returns '<expr> == <target>', <expr> evaluates by
\* integer arithmetic to exactly target, and every subtraction in it is
\* strictly positive and every division exact.
C4_SuccessEvaluates ==
    (SolveReturned /\ IsSuccess(s_result)) =>
        /\ s_result[Len(s_result)] = NumTok(target)
        /\ EvalExpr(ExprOf(s_result)).ok
        /\ EvalExpr(ExprOf(s_result)).val = target

\* a returned expression with two operations, one of them a subtraction or a
\* division
C4_Witness ==
    /\ SolveReturned
    /\ IsSuccess(s_result)
    /\ Cardinality({k \in DOMAIN s_result : s_result[k].sym \in {"+", "-", "*", "/"}}) >= 2
    /\ \E k \in DOMAIN s_result : s_result[k].sym \in {"-", "/"}

(* ---------------- C5 ---------------- *)

\* C5: solve_puzzle returns 'no combination of <hand sorted descending> yields
\* <target>' only when no valid expression over the hand evaluates to target,
\* and returns success whenever such an expression exists.
C5_FailureIffUnreachable ==
    SolveReturned =>
        /\ IsFailure(s_result) \/ IsSuccess(s_result)
        /\ IsFailure(s_result) =>
              /\ target \notin ExprValues(cards)
              /\ s_result = FormatFailure(
                     [k \in DOMAIN cards |-> [expr |-> <<NumTok(SortedDescInt(cards)[k])>>]],
                     target)
        /\ target \in ExprValues(cards) => IsSuccess(s_result)

\* a failure returned after the search went through every level
C5_Witness ==
    /\ SolveReturned
    /\ IsFailure(s_result)
    /\ Len(cards) = 3
    /\ s_cardinality = 1

(* ---------------- C6 ---------------- *)

\* the hand reordered by the permutation f of its positions
Reordered(hand, f) == [k \in DOMAIN hand |-> hand[f[k]]]

\* C6: solvable_targets returns the same bitmap for every reordering of the
\* hand it was called with.
C6_OrderIrrelevant ==
    ReachReturned =>
        \A f \in Permutations(DOMAIN cards) :
            SolvableTargets(Reordered(cards, f)) = r_result

\* a call returned set bits for a hand of three different cards
C6_Witness ==
    /\ ReachReturned
    /\ Len(cards) = 3
    /\ cards[1] < cards[2] /\ cards[2] < cards[3]
    /\ \E i \in DOMAIN r_result : r_result[i] = 1

(* ---------------- C7 ---------------- *)

\* the candidates the reachability engine forms at the current level
ReachLevelCandidates ==
    IF r_pc = "loop" /\ r_cardinality > 1
    THEN UNION {ReachStateCandidates(ns) : ns \in r_number_lists}
    ELSE {}

\* the candidates the solver engine forms at the current level
SolveLevelCandidates ==
    IF s_pc = "loop" /\ s_cardinality > 1
    THEN UNION {Range(SolveCandidatesFrom(ns, 1, 2)) : ns \in s_number_lists}
    ELSE {}

\* C7: in both engines every number of every state of every frontier, and
\* every candidate, is a strictly positive integer.
C7_AllPositive ==
    /\ \A ns \in r_number_lists : \A k \in DOMAIN ns : ns[k] \in Nat \ {0}
    /\ \A ns \in s_number_lists : \A k \in DOMAIN ns : ns[k].val \in Nat \ {0}
    /\ \A c \in ReachLevelCandidates : c \in Nat \ {0}
    /\ \A c \in SolveLevelCandidates : c.val \in Nat \ {0}

\* a frontier of the solver built from a hand with two equal cards, whose
\* difference was refused, with the reachability frontiers already built
C7_Witness ==
    /\ s_pc = "loop"
    /\ s_cardinality = 2
    /\ s_number_lists # {}
    /\ \E p, q \in DOMAIN cards : p # q /\ cards[p] = cards[q]

(* ---------------- C8 ---------------- *)

\* C8: both searches halt: each level decreases the tracked cardinality by
\* one, the cardinality never goes below 1 (at most n - 1 levels for n cards),
\* and once the engines are called on a hand, both calls return.
C8_Halts ==
    /\ [][/\ r_pc = "loop" /\ r_pc' = "loop" => r_cardinality' = r_cardinality - 1
          /\ s_pc = "loop" /\ s_pc' = "loop" => s_cardinality' = s_cardinality - 1]_vars
    /\ [](r_pc = "loop" => r_cardinality \in 1..Len(cards))
    /\ [](s_pc = "loop" => s_cardinality \in 1..Len(cards))
    /\ (r_pc = "call") ~> (r_pc = "done" /\ s_pc = "done")

\* both calls returned, the solver after its last level
C8_Witness ==
    /\ r_pc = "done" /\ r_cardinality = 1
    /\ s_pc = "done" /\ s_cardinality = 1
    /\ Len(cards) = 3

(* ---------------- C9 ---------------- *)

\* how many number tokens of toks hold the value v
CountTok(toks, v) ==
    Cardinality({k \in DOMAIN toks : toks[k].sym = "num" /\ toks[k].num = v})

\* how many of the positions P of hand hold the value v
CountCards(hand, P, v) == Cardinality({p \in P : hand[p] = v})

\* the numbers of the state ns come from pairwise disjoint sets of positions
\* of the hand that cover it: some assignment of the positions to the numbers
\* gives every number a set of cards an expression over which has its value
ReachStatePartitions(ns) ==
    \E blk \in [DOMAIN cards -> DOMAIN ns] :
        \A k \in DOMAIN ns :
            /\ \E p \in DOMAIN cards : blk[p] = k
            /\ ns[k] \in ExprValuesOn(cards, {p \in DOMAIN cards : blk[p] = k})

\* the nodes of the state ns were built from pairwise disjoint sets of card
\* objects that cover the hand, and the expression of each node holds exactly
\* the cards it was built from
SolveStatePartitions(ns) ==
    /\ \A k, l \in DOMAIN ns : k # l => ns[k].id \cap ns[l].id = {}
    /\ UNION {ns[k].id : k \in DOMAIN ns} = DOMAIN cards
    /\ \A k \in DOMAIN ns : \A v \in CardValues \cup {ns[k].expr[l].num : l \in DOMAIN ns[k].expr} :
           CountTok(ns[k].expr, v) = CountCards(cards, ns[k].id, v)

\* C9: every state of a frontier of either engine is made of numbers derived
\* from pairwise disjoint sets of card positions that cover the hand, and a
\* returned expression holds each card at most as often as the hand does.
C9_CardsUsedOnce ==
    /\ \A ns \in r_number_lists : ReachStatePartitions(ns)
    /\ \A ns \in s_number_lists : SolveStatePartitions(ns)
    /\ (SolveReturned /\ IsSuccess(s_result)) =>
           \A k \in DOMAIN ExprOf(s_result) :
               ExprOf(s_result)[k].sym = "num" =>
                   CountTok(ExprOf(s_result), ExprOf(s_result)[k].num)
                       <= CountCards(cards, DOMAIN cards, ExprOf(s_result)[k].num)

\* an expression over all three cards of a hand with two equal cards is
\* returned
C9_Witness ==
    /\ SolveReturned
    /\ IsSuccess(s_result)
    /\ Len(cards) = 3
    /\ \E p, q \in DOMAIN cards : p # q /\ cards[p] = cards[q]
    /\ Cardinality({k \in DOMAIN s_result : s_result[k].sym = "num"}) = 4

(* ---------------- C10 ---------------- *)

RECURSIVE Binomial(_, _)
\* the number of k-subsets of a set of n elements
Binomial(n, k) ==
    IF k = 0 THEN 1 ELSE IF n = 0 THEN 0
    ELSE Binomial(n - 1, k - 1) + Binomial(n - 1, k)

RECURSIVE SumOver(_, _)
\* the sum of v * (number of keys of f with value v) over the values in V
SumOver(f, V) ==
    IF V = {} THEN 0
    ELSE LET v == CHOOSE v \in V : TRUE
         IN  v * Cardinality({h \in DOMAIN f : f[h] = v}) + SumOver(f, V \ {v})

\* sum(hands.values())
SumValues(f) == SumOver(f, {f[h] : h \in DOMAIN f})

\* C10 as stated: the multiplicities of get_hands(0) sum to C(12, 6).
C10_SumIsChoose12 ==
    (g_pc = "done" /\ n_large = 0) => SumValues(g_result) = Binomial(12, 6)

\* C10 amended: the multiplicities of get_hands(0) sum to C(20, 6), the number
\* of ways to draw 6 of the 20 small cards.
C10_SumIsChoose20 ==
    (g_pc = "done" /\ n_large = 0) =>
        /\ SumValues(g_result) = Binomial(Len(SMALL_CARDS), 6)
        /\ SumValues(g_result) = 38760

\* get_hands(0) returned, with a hand of multiplicity 1 and one of 64
C10_Witness ==
    /\ g_pc = "done"
    /\ n_large = 0
    /\ <<1, 1, 2, 2, 3, 3>> \in DOMAIN g_result
    /\ g_result[<<1, 1, 2, 2, 3, 3>>] = 1
    /\ g_result[<<1, 2, 3, 4, 5, 6>>] = 64

(* ---------------- C11 ---------------- *)

\* how often the value v occurs in the tuple h
Occurrences(h, v) == Cardinality({k \in DOMAIN h : h[k] = v})

RECURSIVE Power2(_)
Power2(e) == IF e = 0 THEN 1 ELSE 2 * Power2(e - 1)

\* the number of selections of physical cards that give the tuple h: every
\* small value taken once can come from either of its two copies
Selections(h) ==
    Power2(Cardinality({v \in Range(SMALL_CARDS) : Occurrences(h, v) = 1}))

\* h is an ascending 6-tuple of nl different large cards and 6 - nl small
\* cards, no small value more than twice
IsHandOf(h, nl) ==
    /\ DOMAIN h = 1..6
    /\ \A k \in 1..5 : h[k] <= h[k + 1]
    /\ \A k \in 1..6 : h[k] \in Range(SMALL_CARDS) \cup Range(LARGE_CARDS)
    /\ \A v \in Range(LARGE_CARDS) : Occurrences(h, v) <= 1
    /\ \A v \in Range(SMALL_CARDS) : Occurrences(h, v) <= 2
    /\ Cardinality({k \in 1..6 : h[k] \in Range(LARGE_CARDS)}) = nl

RECURSIVE SumDoubled(_, _)
\* the number of multisets of ns small values, none more than twice, with at
\* most d values taken twice
SumDoubled(ns, d) ==
    IF d < 0 \/ 2 * d > ns THEN (IF d < 0 THEN 0 ELSE SumDoubled(ns, d - 1))
    ELSE Binomial(10, d) * Binomial(10 - d, ns - 2 * d) + SumDoubled(ns, d - 1)

\* the number of tuples h with IsHandOf(h, nl)
NumHandsOf(nl) == Binomial(Len(LARGE_CARDS), nl) * SumDoubled(6 - nl, 3)

\* C11: for every n_large in 0..4, get_hands(n_large) maps each ascending
\* 6-tuple of n_large large cards and 6 - n_large small cards to the number of
\* selections of physical cards that yield it: 2 to the number of small values
\* taken once; for n_large = 2, (1,2,3,4,25,50) has frequency 16 and
\* (1,1,2,2,25,50) has frequency 1.
C11_Frequencies ==
    g_pc = "done" =>
        /\ \A h \in DOMAIN g_result : IsHandOf(h, n_large) /\ g_result[h] = Selections(h)
        /\ Cardinality(DOMAIN g_result) = NumHandsOf(n_large)
        /\ n_large = 2 =>
              /\ g_result[<<1, 2, 3, 4, 25, 50>>] = 16
              /\ g_result[<<1, 1, 2, 2, 25, 50>>] = 1

\* get_hands(2) returned, with a hand that takes one small value twice and
\* two small values once
C11_Witness ==
    /\ g_pc = "done"
    /\ n_large = 2
    /\ <<3, 3, 5, 9, 50, 100>> \in DOMAIN g_result
    /\ g_result[<<3, 3, 5, 9, 50, 100>>] = 4

(* ---------------- C12 ---------------- *)

\* the candidates of the search of solvable_targets for the pair (m, n); the
\* product and the quotient by 1 are skipped only when skip_one holds
VariantCandidates(m, n, skip_one) ==
    (IF ~skip_one \/ n # 1
        THEN <<m * n>> \o (IF n * (m \div n) = m THEN <<m \div n>> ELSE <<>>)
        ELSE <<>>)
    \o <<m + n>>
    \o (IF m - n > 0 THEN <<m - n>> ELSE <<>>)

\* the candidates that search forms at one level
VariantValues(number_lists, skip_one) ==
    UNION {UNION {Range(VariantCandidates(ns[ij[1]], ns[ij[2]], skip_one)) :
                     ij \in PairsOf(ns)} :
           ns \in number_lists}

\* the next frontier of that search; a candidate already in the state gives
\* no successor state only when test_member holds
VariantStep(number_lists, cardinality, skip_one, test_member) ==
    UNION {UNION {{SortedDescInt(<<c>> \o OtherNumbers(ns, ij[1], ij[2])) :
                      c \in {d \in Range(VariantCandidates(ns[ij[1]], ns[ij[2]], skip_one)) :
                                cardinality > 2 /\ (test_member => d \notin Range(ns))}} :
                  ij \in PairsOf(ns)} :
           ns \in number_lists}

RECURSIVE VariantLoop(_, _, _, _)
\* every candidate that search forms from the frontier number_lists on
VariantLoop(number_lists, cardinality, skip_one, test_member) ==
    IF cardinality > 1
    THEN VariantValues(number_lists, skip_one)
             \cup VariantLoop(VariantStep(number_lists, cardinality, skip_one, test_member),
                              cardinality - 1, skip_one, test_member)
    ELSE {}

\* the targets that search marks for the hand
VariantTargets(hand, skip_one, test_member) ==
    {t \in VariantLoop({SortedDescInt(hand)}, Len(hand), skip_one, test_member) :
        MIN_TARGET <= t /\ t <= MAX_TARGET}

\* the targets whose bit is set in the bitmap solvable_targets returned
MarkedTargets == {t \in MIN_TARGET..MAX_TARGET : r_result[t - MIN_TARGET] = 1}

\* C12: in solvable_targets, giving no successor state to a candidate whose
\* value already occurs in the current state never changes the returned
\* bitmap: it equals the bitmap of the same search without that omission; a
\* target that needs two equal numbers, one derived, such as (7+3)*10 from the
\* cards 10, 7, 3, is still marked.
C12_MembershipTestHarmless ==
    ReachReturned => MarkedTargets = VariantTargets(cards, TRUE, FALSE)

(* ---------------- C13 ---------------- *)

\* C13: in solvable_targets, skipping m*n and m/n when n = 1 never changes the
\* returned bitmap: it equals the bitmap of the same search that also forms
\* m*1 and m/1, also for a hand that holds a card in [100, 999] and a 1.
C13_SkipOneHarmless ==
    ReachReturned => MarkedTargets = VariantTargets(cards, FALSE, TRUE)

(* ---------------- C14 ---------------- *)

\* C14 as stated: values above the maximum target 999 are not stored: no
\* state of any frontier of solvable_targets contains a number above 999.
C14_NoLargeStored ==
    \A ns \in r_number_lists : \A k \in DOMAIN ns : ns[k] <= MAX_TARGET

\* C14 amended: values above 999 are not marked (targets_solvable keeps its
\* 1000 entries 0..999, each 0 or 1), but they are stored: while more than 2
\* numbers remain, a candidate above 999 whose value is not already in the
\* state gives a successor state in the next frontier, as any other candidate.
C14_LargeStoredNotMarked ==
    /\ [](r_pc \in {"loop", "done"} =>
             /\ DOMAIN targets_solvable = 0..MAX_TARGET
             /\ \A x \in DOMAIN targets_solvable : targets_solvable[x] \in {0, 1})
    /\ [][(r_pc = "loop" /\ r_cardinality > 2) =>
             \A ns \in r_number_lists : \A ij \in PairsOf(ns) :
                 \A c \in Range(ReachCandidates(ns[ij[1]], ns[ij[2]])) :
                     (c > MAX_TARGET /\ c \notin Range(ns)) =>
                         SortedDescInt(<<c>> \o OtherNumbers(ns, ij[1], ij[2]))
                             \in r_number_lists']_reach_vars

\* a frontier of solvable_targets holds a state with a number above 999
C14_Witness ==
    /\ r_pc = "loop"
    /\ \E ns \in r_number_lists : \E k \in DOMAIN ns : ns[k] > MAX_TARGET

(* ---------------- C15 ---------------- *)

\* the expression toks holds a product or a quotient whose right operand has
\* the value 1
TimesOrOverOne(toks) ==
    \E k \in DOMAIN toks :
        /\ toks[k].sym \in {"*", "/"}
        /\ \E l \in (k + 1)..Len(toks) :
              /\ EvalExpr(SubSeq(toks, k + 1, l)).ok
              /\ EvalExpr(SubSeq(toks, k + 1, l)).val = 1

\* C15: solve_puzzle applies the no-op pruning of solvable_targets: it never
\* forms a candidate by multiplying or dividing by a number of value 1, so no
\* returned expression holds a product or quotient with right operand 1, and
\* a target equal to a card c is never reported as '(c * 1)' or '(c / 1)'.
C15_SolverSkipsOne ==
    /\ \A c \in SolveLevelCandidates : ~TimesOrOverOne(c.expr)
    /\ (SolveReturned /\ IsSuccess(s_result)) => ~TimesOrOverOne(ExprOf(s_result))

(* ---------------- C16 ---------------- *)

\* the successor state sorted_desc(candidate + other numbers) of the pair ij
\* of the state ns
SuccessorOf(ns, ij, c) == SortedDescInt(<<c>> \o OtherNumbers(ns, ij[1], ij[2]))

\* C16 as stated: while more than 2 numbers remain, the successor state of a
\* pair (m, n) is omitted exactly when the candidate's value equals the value
\* of a number at an unused position; a candidate that equals only m or n
\* still yields a successor state.  With exactly 2 numbers, no successor state
\* is formed.
C16_OmittedIffAtUnusedPosition ==
    [][(r_pc = "loop" /\ r_cardinality > 1) =>
          /\ \A ns \in r_number_lists : \A ij \in PairsOf(ns) :
                \A c \in Range(ReachCandidates(ns[ij[1]], ns[ij[2]])) :
                    (r_cardinality > 2 /\ c \notin Range(OtherNumbers(ns, ij[1], ij[2])))
                        => SuccessorOf(ns, ij, c) \in r_number_lists'
          /\ \A succ \in r_number_lists' :
                \E ns \in r_number_lists : \E ij \in PairsOf(ns) :
                    \E c \in Range(ReachCandidates(ns[ij[1]], ns[ij[2]])) :
                        /\ r_cardinality > 2
                        /\ c \notin Range(OtherNumbers(ns, ij[1], ij[2]))
                        /\ succ = SuccessorOf(ns, ij, c)]_reach_vars

\* C16 amended: while more than 2 numbers remain, the successor state of a
\* pair (m, n) is omitted exactly when the candidate's value equals the value
\* of a number of the current state, m and n included.  With exactly 2
\* numbers, no successor state is formed.
C16_OmittedIffInState ==
    [][(r_pc = "loop" /\ r_cardinality > 1) =>
          /\ \A ns \in r_number_lists : \A ij \in PairsOf(ns) :
                \A c \in Range(ReachCandidates(ns[ij[1]], ns[ij[2]])) :
                    (r_cardinality > 2 /\ c \notin Range(ns))
                        => SuccessorOf(ns, ij, c) \in r_number_lists'
          /\ \A succ \in r_number_lists' :
                \E ns \in r_number_lists : \E ij \in PairsOf(ns) :
                    \E c \in Range(ReachCandidates(ns[ij[1]], ns[ij[2]])) :
                        /\ r_cardinality > 2
                        /\ c \notin Range(ns)
                        /\ succ = SuccessorOf(ns, ij, c)]_reach_vars

\* the first level of a hand of three cards is over; the hand has a pair with
\* m - n = n, n at no other position, and the state of that candidate is not
\* in the frontier
C16_Witness ==
    /\ r_pc = "loop"
    /\ Len(cards) = 3
    /\ r_cardinality = 2
    /\ \E ij \in PairsOf(r_cards) :
          /\ r_cards[ij[1]] - r_cards[ij[2]] = r_cards[ij[2]]
          /\ r_cards[ij[2]] \notin Range(OtherNumbers(r_cards, ij[1], ij[2]))
          /\ SuccessorOf(r_cards, ij, r_cards[ij[2]]) \notin r_number_lists

(* ---------------- C17 ---------------- *)

\* the number of operations of the expression toks
OpsIn(toks) == Cardinality({k \in DOMAIN toks : toks[k].sym \in {"+", "-", "*", "/"}})

\* some valid expression over cards of hand with exactly ops operations (over
\* ops + 1 cards) has the value t
ValueWithOps(hand, t, ops) ==
    \E P \in SUBSET DOMAIN hand :
        /\ Cardinality(P) = ops + 1
        /\ t \in ExprValuesOn(hand, P)

\* C17: a success expression returned by solve_puzzle uses the minimum
\* number of operations among the valid expressions over the hand that
\* evaluate to target: no valid expression with fewer operations exists.
C17_MinimalOperations ==
    (SolveReturned /\ IsSuccess(s_result)) =>
        /\ ValueWithOps(cards, target, OpsIn(ExprOf(s_result)))
        /\ \A ops \in 1..(OpsIn(ExprOf(s_result)) - 1) : ~ValueWithOps(cards, target, ops)

\* an expression of one operation is returned for a target that expressions
\* of two operations reach too
C17_Witness ==
    /\ SolveReturned
    /\ IsSuccess(s_result)
    /\ OpsIn(ExprOf(s_result)) = 1
    /\ ValueWithOps(cards, target, 2)

(* ---------------- C18 ---------------- *)

\* C18: in both engines, at the start of the k-th level every state of the
\* frontier has exactly len(cards) - k numbers, the tracked cardinality: the
\* frontier starts as the singleton of the sorted hand, every state shrinks by
\* one number per level, and the frontier is empty after the level at which
\* cardinality is 2.
C18_FrontierSizes ==
    /\ [](r_pc = "loop" =>
             /\ \A ns \in r_number_lists : Len(ns) = r_cardinality
             /\ r_cardinality = Len(cards) => r_number_lists = {SortedDescInt(cards)}
             /\ r_cardinality = 1 => r_number_lists = {})
    /\ [](s_pc = "loop" =>
             /\ \A ns \in s_number_lists : Len(ns) = s_cardinality
             /\ s_cardinality = Len(cards) =>
                   /\ Cardinality(s_number_lists) = 1
                   /\ \A ns \in s_number_lists :
                         [k \in DOMAIN ns |-> ns[k].val] = SortedDescInt(cards)
             /\ s_cardinality = 1 => s_number_lists = {})
    /\ [][/\ (r_pc = "loop" /\ r_pc' = "loop") =>
                /\ \A ns \in r_number_lists : Len(ns) = r_cardinality
                /\ \A ns \in r_number_lists' : Len(ns) = r_cardinality - 1
          /\ (s_pc = "loop" /\ s_pc' = "loop") =>
                /\ \A ns \in s_number_lists : Len(ns) = s_cardinality
                /\ \A ns \in s_number_lists' : Len(ns) = s_cardinality - 1]_vars

\* the solver is at its second level on a hand of three cards, with several
\* states of two numbers in its frontier, after the reachability engine went
\* through its levels and ended with an empty frontier
C18_Witness ==
    /\ Len(cards) = 3
    /\ r_pc = "done" /\ r_cardinality = 1 /\ r_number_lists = {}
    /\ s_pc = "loop" /\ s_cardinality = 2
    /\ Cardinality(s_number_lists) >= 2

(* ---------------- C19 ---------------- *)

\* the values of the valid difference and the valid quotient of a by b
DifferenceAndQuotient(a, b) ==
    (IF a - b > 0 THEN {a - b} ELSE {})
        \cup (IF b # 0 /\ a % b = 0 THEN {a \div b} ELSE {})

\* vals is in non-increasing order, and for every pair of positions i < j the
\* directions n - m and n / m give no valid value that m - n and m / n do not
SortedAndOneDirection(vals) ==
    /\ \A k \in 1..(Len(vals) - 1) : vals[k] >= vals[k + 1]
    /\ \A ij \in PairsOf(vals) :
          /\ vals[ij[1]] >= vals[ij[2]]
          /\ DifferenceAndQuotient(vals[ij[2]], vals[ij[1]])
                 \subseteq DifferenceAndQuotient(vals[ij[1]], vals[ij[2]])

\* C19: in both engines every frontier state is a tuple sorted by value in
\* non-increasing order, so for every examined pair (i < j) the first operand
\* m is >= the second operand n, and the skipped directions n - m and n / m
\* could never give a new valid candidate.
C19_SortedDescending ==
    /\ \A ns \in r_number_lists : SortedAndOneDirection(ns)
    /\ \A ns \in s_number_lists : SortedAndOneDirection([k \in DOMAIN ns |-> ns[k].val])

\* the frontier of solvable_targets, called with an ascending hand of three
\* different cards, holds a state whose new number was sorted behind an
\* original card
C19_Witness ==
    /\ r_pc = "loop"
    /\ Len(cards) = 3 /\ cards[1] < cards[2] /\ cards[2] < cards[3]
    /\ \E ns \in r_number_lists :
          Len(ns) = 2 /\ ns[1] > ns[2] /\ ns[2] \notin Range(cards)

(* ---------------- C20 ---------------- *)

\* the outcomes of the four operator calls of lines 110-117 for the pair (m, n)
PairOutcomes(m, n) == {NodeMul(m, n), NodeDiv(m, n), NodeAdd(m, n), NodeSub(m, n)}

\* for the pair (m, n): the calls outside a try do not raise, a call inside a
\* try raises ValueError exactly on an inexact quotient or a difference that
\* is not strictly positive, and the pair contributes every outcome that was
\* returned, m + n among them
PairAbsorbs(m, n) ==
    /\ ~NodeMul(m, n).raised
    /\ ~NodeAdd(m, n).raised
    /\ NodeDiv(m, n) = ValueError <=> (n.val # 0 /\ m.val % n.val # 0)
    /\ NodeSub(m, n) = ValueError <=> m.val - n.val <= 0
    /\ NodeDiv(m, n) # ZeroDivisionError
    /\ Range(SolveCandidates(m, n)) = {o.node : o \in {x \in PairOutcomes(m, n) : ~x.raised}}

\* C20: invalid arithmetic is local: in solve_puzzle a ValueError of m / n or
\* m - n is absorbed, the pair still contributes its other candidates, the
\* search goes on with the next pairs and states, and neither engine raises
\* an error for a hand of positive integers.
C20_ErrorsAbsorbed ==
    /\ (s_pc = "loop" /\ s_cardinality > 1) =>
          \A ns \in s_number_lists :
              /\ \A ij \in PairsOf(ns) : PairAbsorbs(ns[ij[1]], ns[ij[2]])
              /\ Range(SolveCandidatesFrom(ns, 1, 2))
                     = UNION {Range(SolveCandidates(ns[ij[1]], ns[ij[2]])) : ij \in PairsOf(ns)}
    /\ (r_pc = "loop" /\ r_cardinality > 1) =>
          \A ns \in r_number_lists : \A ij \in PairsOf(ns) : ns[ij[2]] # 0
    /\ r_pc = "done" =>
          /\ DOMAIN r_result = 0..(MAX_TARGET - MIN_TARGET)
          /\ \A i \in DOMAIN r_result : r_result[i] \in {0, 1}
    /\ s_pc = "done" => (IsSuccess(s_result) \/ IsFailure(s_result))

\* solve_puzzle returned a success expression of two operations for a hand of
\* three cards with a pair whose difference is refused and a pair whose
\* quotient is refused
C20_Witness ==
    /\ SolveReturned
    /\ IsSuccess(s_result)
    /\ OpsIn(ExprOf(s_result)) = 2
    /\ \E ij \in PairsOf(s_cards) : NodeSub(s_cards[ij[1]], s_cards[ij[2]]).raised
    /\ \E ij \in PairsOf(s_cards) : NodeDiv(s_cards[ij[1]], s_cards[ij[2]]).raised

====
